---- MODULE Spec2Model ----
(***************************************************************************)
(* sharkit: interactive terminal file picker (src/main.rs).                *)
(*                                                                         *)
(* Strings are modelled as sequences of pieces [s, n]: the text s repeated *)
(* n times.  A file name is a sequence of one-character strings.  Indexes  *)
(* (cursor, ListState.selected) are 0-based as in the source; TLA+         *)
(* sequences are 1-based, so items[cursor + 1] is the entry at the cursor. *)
(***************************************************************************)
EXTENDS Integers, Sequences, FiniteSets, TLC

VARIABLES
    pc,          \* position of main
    listing,     \* Vec<Entry> returned by list_files, until App::new consumes it
    disk,        \* what fs::read_to_string returns for each file name
    app,         \* the App: items, cursor, preview_content, show_preview
    list_state,  \* ListState.selected: <<>> is None, <<i>> is Some(i)
    confirmed,   \* main's `confirmed`
    raw_mode,    \* terminal raw mode is enabled
    alt_screen,  \* terminal is on the alternate screen
    frame,       \* what the last terminal.draw handed to the renderer
    stdout,      \* lines printed by println!
    exit_code,   \* process exit status, -1 while running
    lastEvent,   \* history: the event the last loop iteration read
    before       \* history: the App as it was when lastEvent was read

vars == <<pc, listing, disk, app, list_state, confirmed, raw_mode, alt_screen,
          frame, stdout, exit_code, lastEvent, before>>

----------------------------------------------------------------------------
(* Bounds *)

MaxFiles == 4

----------------------------------------------------------------------------
(* Text *)

Lit(s) == <<[s |-> s, n |-> 1]>>

Utf8Len(ch) == IF ch = "U+00E9" THEN 2 ELSE 1

RECURSIVE ByteLen(_)
ByteLen(str) ==
    IF str = <<>> THEN 0
    ELSE Utf8Len(Head(str).s) * Head(str).n + ByteLen(Tail(str))

RECURSIVE CharLen(_)
CharLen(str) ==
    IF str = <<>> THEN 0 ELSE Head(str).n + CharLen(Tail(str))

\* &content[..k]: the first k bytes; panics when byte k is inside a character
RECURSIVE SliceTo(_, _)
SliceTo(str, k) ==
    IF k = 0 THEN [panic |-> FALSE, text |-> <<>>]
    ELSE IF str = <<>> THEN [panic |-> TRUE, text |-> <<>>]
    ELSE LET r == Head(str)
             w == Utf8Len(r.s)
         IN IF w * r.n <= k
            THEN LET rest == SliceTo(Tail(str), k - w * r.n)
                 IN [panic |-> rest.panic, text |-> <<r>> \o rest.text]
            ELSE IF k % w = 0
                 THEN [panic |-> FALSE, text |-> <<[s |-> r.s, n |-> k \div w]>>]
                 ELSE [panic |-> TRUE, text |-> <<>>]

PreviewLimit == 10000

----------------------------------------------------------------------------
(* File names and the working directory *)

Names == { <<"A">>, <<"b">>, <<".", "a">>, <<".", "b">> }

CodePoint(ch) ==
    CASE ch = "." -> 46
      [] ch = "A" -> 65
      [] ch = "B" -> 66
      [] ch = "a" -> 97
      [] ch = "b" -> 98

ToLowercase(ch) ==
    CASE ch = "A" -> "a"
      [] ch = "B" -> "b"
      [] OTHER -> ch

\* String::cmp of a.to_lowercase() and b.to_lowercase(): -1, 0, 1
RECURSIVE CmpLower(_, _)
CmpLower(a, b) ==
    IF a = <<>> /\ b = <<>> THEN 0
    ELSE IF a = <<>> THEN -1
    ELSE IF b = <<>> THEN 1
    ELSE LET x == CodePoint(ToLowercase(Head(a)))
             y == CodePoint(ToLowercase(Head(b)))
         IN IF x < y THEN -1
            ELSE IF x > y THEN 1
            ELSE CmpLower(Tail(a), Tail(b))

\* faulty variant: hidden entries are not kept behind the others
CompareNamesOnly(a, b) == CmpLower(a.name, b.name)

\* the closure given to sort_by
Compare(a, b) ==
    IF a.hidden /\ ~b.hidden THEN 1
    ELSE IF ~a.hidden /\ b.hidden THEN -1
    ELSE CmpLower(a.name, b.name)

RECURSIVE Insert(_, _)
Insert(e, sorted) ==
    IF sorted = <<>> THEN <<e>>
    ELSE IF Compare(e, Head(sorted)) < 0 THEN <<e>> \o sorted
    ELSE <<Head(sorted)>> \o Insert(e, Tail(sorted))

\* Vec::sort_by is a stable sort
RECURSIVE SortBy(_)
SortBy(v) ==
    IF v = <<>> THEN <<>>
    ELSE Insert(v[Len(v)], SortBy(SubSeq(v, 1, Len(v) - 1)))

\* the .gitignore of the working directory: names it matches
Gitignore == { <<"b">> }

CurDir == <<".">>

MkEntry(name) ==
    [name     |-> name,
     path     |-> <<CurDir, name>>,
     hidden   |-> name[1] = ".",
     ignored  |-> name \in Gitignore,
     selected |-> FALSE]

\* read_dir order is arbitrary: every duplicate-free sequence of names
Listings ==
    { l \in UNION { [1..k -> Names] : k \in 0..MaxFiles } :
        \A i, j \in 1..Len(l) : i # j => l[i] # l[j] }

Ok(text) == [ok |-> TRUE, text |-> text, err |-> ""]
Err(e)   == [ok |-> FALSE, text |-> <<>>, err |-> e]

\* file contents on disk, by name
Disks ==
    { [nm \in Names |->
         CASE nm = <<"A">>      -> Ok(<<[s |-> "a", n |-> 3]>>)
           [] nm = <<"b">>      -> Ok(<<>>)
           [] nm = <<".", "a">> -> Err("Permission denied (os error 13)")
           [] nm = <<".", "b">> -> Ok(<<[s |-> "b", n |-> 11000]>>)],
      [nm \in Names |->
         CASE nm = <<"A">>      -> Ok(<<[s |-> "a", n |-> 10000]>>)
           [] nm = <<"b">>      -> Ok(<<[s |-> "U+00E9", n |-> 6000]>>)
           [] nm = <<".", "a">> -> Ok(<<[s |-> "a", n |-> 1], [s |-> "U+00E9", n |-> 5000]>>)
           [] nm = <<".", "b">> -> Err("stream did not contain valid UTF-8")] }

----------------------------------------------------------------------------
(* impl App *)

\* items[self.cursor]
AtCursor(self) == self.items[self.cursor + 1]

SetAll(items, flag) ==
    [i \in 1..Len(items) |-> [items[i] EXCEPT !.selected = flag]]

\* faulty variant: every flag is flipped, not set
select_all_flips(self) ==
    [self EXCEPT !.items = [i \in 1..Len(self.items) |->
                               [self.items[i] EXCEPT !.selected = ~@]]]

select_all(self) == [self EXCEPT !.items = SetAll(self.items, TRUE)]

\* faulty variant: the entries are removed, not deselected
select_none_clears(self) == [self EXCEPT !.items = <<>>]

select_none(self) == [self EXCEPT !.items = SetAll(self.items, FALSE)]

Min(a, b) == IF a < b THEN a ELSE b

\* faulty variant: the cursor is set also when the catalog is empty
select_only_n_unguarded(self, n) ==
    LET cleared == select_none(self)
    IN IF cleared.items # <<>>
       THEN LET idx == Min(n, Len(cleared.items) - 1)
            IN [cleared EXCEPT !.items[idx + 1].selected = TRUE,
                               !.cursor = idx]
       ELSE [cleared EXCEPT !.cursor = n]

\* faulty variant: the cursor is set to n, not to the clamped index
select_only_n_unclamped(self, n) ==
    LET cleared == select_none(self)
    IN IF cleared.items # <<>>
       THEN LET idx == Min(n, Len(cleared.items) - 1)
            IN [cleared EXCEPT !.items[idx + 1].selected = TRUE,
                               !.cursor = n]
       ELSE cleared

\* faulty variant: the earlier selections are not cleared
select_only_n_keeps(self, n) ==
    IF self.items # <<>>
    THEN LET idx == Min(n, Len(self.items) - 1)
         IN [self EXCEPT !.items[idx + 1].selected = TRUE,
                         !.cursor = idx]
    ELSE self

select_only_n(self, n) ==
    LET cleared == select_none(self)
    IN IF cleared.items # <<>>
       THEN LET idx == Min(n, Len(cleared.items) - 1)
            IN [cleared EXCEPT !.items[idx + 1].selected = TRUE,
                               !.cursor = idx]
       ELSE cleared

\* faulty variant: the cursor advances after the flip
toggle_current_advances(self) ==
    IF self.items = <<>> THEN self
    ELSE [self EXCEPT !.items[self.cursor + 1].selected = ~@,
                      !.cursor = (self.cursor + 1) % Len(self.items)]

\* faulty variant: the entry at the cursor is selected, not flipped
toggle_current_sets(self) ==
    IF self.items = <<>> THEN self
    ELSE [self EXCEPT !.items[self.cursor + 1].selected = TRUE]

toggle_current(self) ==
    IF self.items = <<>> THEN self
    ELSE [self EXCEPT !.items[self.cursor + 1].selected = ~@]

\* faulty variant: a failed read is unwrapped and panics
PreviewTextUnwrap(self, d) ==
    IF self.items = <<>>
    THEN [panic |-> FALSE, text |-> Lit("No files available")]
    ELSE LET res == d[AtCursor(self).name]
         IN IF res.ok
            THEN LET content == res.text
                 IN IF ByteLen(content) = 0
                    THEN [panic |-> FALSE, text |-> Lit("<empty file>")]
                    ELSE IF ByteLen(content) > PreviewLimit
                    THEN LET cut == SliceTo(content, PreviewLimit)
                         IN [panic |-> cut.panic,
                             text  |-> cut.text
                                       \o Lit("\n\n... (truncated, file is ")
                                       \o Lit(ToString(ByteLen(content)))
                                       \o Lit(" bytes)")]
                    ELSE [panic |-> FALSE, text |-> content]
            ELSE [panic |-> TRUE, text |-> <<>>]

\* the text update_preview stores, or a panic in the slice
PreviewText(self, d) ==
    IF self.items = <<>>
    THEN [panic |-> FALSE, text |-> Lit("No files available")]
    ELSE LET res == d[AtCursor(self).name]
         IN IF res.ok
            THEN LET content == res.text
                 IN IF ByteLen(content) = 0
                    THEN [panic |-> FALSE, text |-> Lit("<empty file>")]
                    ELSE IF ByteLen(content) > PreviewLimit
                    THEN LET cut == SliceTo(content, PreviewLimit)
                         IN [panic |-> cut.panic,
                             text  |-> cut.text
                                       \o Lit("\n\n... (truncated, file is ")
                                       \o Lit(ToString(ByteLen(content)))
                                       \o Lit(" bytes)")]
                    ELSE [panic |-> FALSE, text |-> content]
            ELSE [panic |-> FALSE, text |-> Lit("Error reading file: ") \o Lit(res.err)]

\* the App after the call and whether the call panicked
update_preview(self, d) ==
    LET p == PreviewText(self, d)
    IN [panic |-> p.panic,
        app   |-> IF p.panic THEN self ELSE [self EXCEPT !.preview_content = p.text]]

NoPanic(self) == [panic |-> FALSE, app |-> self]

\* faulty variant: no wraparound at index 0
move_up_clamped(self, d) ==
    IF self.items = <<>> THEN NoPanic(self)
    ELSE update_preview(
            [self EXCEPT !.cursor = IF self.cursor = 0 THEN 0 ELSE self.cursor - 1], d)

move_up(self, d) ==
    IF self.items = <<>> THEN NoPanic(self)
    ELSE update_preview(
            [self EXCEPT !.cursor = IF self.cursor = 0
                                    THEN Len(self.items) - 1
                                    ELSE self.cursor - 1], d)

move_down(self, d) ==
    IF self.items = <<>> THEN NoPanic(self)
    ELSE update_preview(
            [self EXCEPT !.cursor = (self.cursor + 1) % Len(self.items)], d)

RECURSIVE selected_paths_of(_)
selected_paths_of(items) ==
    IF items = <<>> THEN <<>>
    ELSE (IF Head(items).selected THEN <<Head(items).path>> ELSE <<>>)
         \o selected_paths_of(Tail(items))

\* faulty variant: the paths come out in reverse catalog order
selected_paths_reversed(self) ==
    LET sel == selected_paths_of(self.items)
    IN [i \in 1..Len(sel) |-> sel[Len(sel) + 1 - i]]

selected_paths(self) == selected_paths_of(self.items)

selected_count(self) ==
    Cardinality({ i \in 1..Len(self.items) : self.items[i].selected })

\* faulty variant: the cursor goes back to the top
toggle_preview_rewinds(self) == [self EXCEPT !.show_preview = ~@, !.cursor = 0]

toggle_preview(self) == [self EXCEPT !.show_preview = ~@]

\* App::new before its update_preview call
NewApp(items) ==
    [items           |-> SortBy(items),
     cursor          |-> 0,
     preview_content |-> <<>>,
     show_preview    |-> TRUE]

----------------------------------------------------------------------------
(* Input events *)

Key(code, ch, mods) == [kind |-> "Key", code |-> code, ch |-> ch, mods |-> mods]

Digits == {"0", "1", "2", "3", "4", "5", "6", "7", "8", "9"}

\* what event::read can return
Events ==
    { Key(c, "", "NONE") : c \in {"Up", "Down", "Enter", "Esc", "Tab"} }
      \cup { Key("Char", c, "NONE") : c \in {"k", "j", " ", "a", "A", "n", "q", "p", "x", "1"} }
      \cup { Key("Char", c, "SHIFT") : c \in Digits }
      \cup { Key("Char", "k", "CONTROL"), Key("Char", "2", "CONTROL"),
             Key("Enter", "", "SHIFT"), Key("Char", "A", "SHIFT") }
      \cup { [kind |-> "Resize", code |-> "", ch |-> "", mods |-> "NONE"] }

NoEvent == [kind |-> "None", code |-> "", ch |-> "", mods |-> "NONE"]

IsChar(ev, c) == ev.kind = "Key" /\ ev.code = "Char" /\ ev.ch = c

IsCode(ev, c) == ev.kind = "Key" /\ ev.code = c

IsShiftChar(ev, c) == IsChar(ev, c) /\ ev.mods = "SHIFT"

\* faulty variant: the digit arms are off by one
DigitValueOffByOne(c) ==
    CASE c = "0" -> 1 [] c = "1" -> 2 [] c = "2" -> 3 [] c = "3" -> 4
      [] c = "4" -> 5 [] c = "5" -> 6 [] c = "6" -> 7 [] c = "7" -> 8
      [] c = "8" -> 9 [] c = "9" -> 10

DigitValue(c) ==
    CASE c = "0" -> 0 [] c = "1" -> 1 [] c = "2" -> 2 [] c = "3" -> 3
      [] c = "4" -> 4 [] c = "5" -> 5 [] c = "6" -> 6 [] c = "7" -> 7
      [] c = "8" -> 8 [] c = "9" -> 9

\* the arms of the match that end the loop
IsConfirmKey(ev) == IsCode(ev, "Enter")

IsCancelKey(ev) == IsCode(ev, "Esc") \/ IsChar(ev, "q")

\* the arms of the match that call into the App and set list_state:
\* the App after the call, whether it panicked, and the new list_state
OnKey(ev, self, ls, d) ==
    LET keep(a) == [panic |-> FALSE, app |-> a, list_state |-> ls]
        moved(r) == [panic |-> r.panic, app |-> r.app,
                     list_state |-> IF r.panic THEN ls ELSE <<r.app.cursor>>]
    IN CASE IsCode(ev, "Up") \/ IsChar(ev, "k")   -> moved(move_up(self, d))
         [] IsCode(ev, "Down") \/ IsChar(ev, "j") -> moved(move_down(self, d))
         [] IsChar(ev, " ")                       -> keep(toggle_current(self))
         [] IsChar(ev, "a") \/ IsChar(ev, "A")    -> keep(select_all(self))
         [] IsChar(ev, "n")                       -> keep(select_none(self))
         [] \E c \in Digits \ {"0"} : IsShiftChar(ev, c) ->
               keep(select_only_n(self, DigitValue(ev.ch) - 1))
         [] IsShiftChar(ev, "0") ->
               keep(IF self.items # <<>>
                    THEN select_only_n(self, Len(self.items) - 1)
                    ELSE self)
         [] IsChar(ev, "p")                       -> keep(toggle_preview(self))
         [] OTHER                                 -> keep(self)

----------------------------------------------------------------------------
(* draw *)

CheckMark == "U+2713"

\* format!(" [{}] {}", mark, e.name) and the style of the ListItem
ListItemOf(e) ==
    [line |-> <<" [", IF e.selected THEN CheckMark ELSE " ", "] ">> \o e.name,
     dim  |-> e.hidden \/ e.ignored]

\* what draw hands to the renderer
Draw(self, ls) ==
    [items     |-> [i \in 1..Len(self.items) |-> ListItemOf(self.items[i])],
     highlight |-> ls,
     preview   |-> IF self.show_preview
                   THEN <<[title |-> IF self.items = <<>>
                                     THEN <<"Preview">>
                                     ELSE <<"Preview: ">> \o AtCursor(self).name,
                           text  |-> self.preview_content]>>
                   ELSE <<>>,
     count     |-> selected_count(self)]

NoFrame == [items |-> <<>>, highlight |-> <<>>, preview |-> <<>>, count |-> 0]

\* pathdiff::diff_paths(path, base) of relative paths: the components of path
\* after its common prefix with base, behind one ".." per component base has left
RECURSIVE DiffPaths(_, _)
DiffPaths(path, base) ==
    IF path # <<>> /\ base # <<>> /\ Head(path) = Head(base)
    THEN DiffPaths(Tail(path), Tail(base))
    ELSE [i \in 1..Len(base) |-> <<".", ".">>] \o path

----------------------------------------------------------------------------
(* main *)

ExitConfirmed == 0
ExitCancelled == 130
ExitError     == 1
ExitPanic     == 101

NoApp == [items |-> <<>>, cursor |-> 0, preview_content |-> <<>>, show_preview |-> TRUE]

Init ==
    /\ pc = "list_files"
    /\ listing = <<>>
    /\ disk = [nm \in Names |-> Err("")]
    /\ app = NoApp
    /\ list_state = <<>>
    /\ confirmed = FALSE
    /\ raw_mode = FALSE
    /\ alt_screen = FALSE
    /\ frame = NoFrame
    /\ stdout = <<>>
    /\ exit_code = -1
    /\ lastEvent = NoEvent
    /\ before = NoApp

\* `?` on an Err: main returns the error
Fatal(where) ==
    /\ pc' = where
    /\ exit_code' = ExitError
    /\ UNCHANGED <<listing, disk, app, list_state, confirmed, raw_mode, alt_screen,
                   frame, stdout, lastEvent, before>>

ListFiles ==
    /\ pc = "list_files"
    /\ \E l \in Listings, d \in Disks :
          /\ listing' = [i \in 1..Len(l) |-> MkEntry(l[i])]
          /\ disk' = d
    /\ pc' = "new"
    /\ UNCHANGED <<app, list_state, confirmed, raw_mode, alt_screen, frame, stdout,
                   exit_code, lastEvent, before>>

ListFilesFails == pc = "list_files" /\ Fatal("fatal_startup")

New ==
    /\ pc = "new"
    /\ LET r == update_preview(NewApp(listing), disk)
       IN /\ app' = r.app
          /\ before' = r.app
          /\ pc' = IF r.panic THEN "panicked" ELSE "enable_raw_mode"
          /\ exit_code' = IF r.panic THEN ExitPanic ELSE exit_code
    /\ listing' = <<>>
    /\ UNCHANGED <<disk, list_state, confirmed, raw_mode, alt_screen, frame, stdout,
                   lastEvent>>

EnableRawMode ==
    /\ pc = "enable_raw_mode"
    /\ raw_mode' = TRUE
    /\ pc' = "enter_alternate_screen"
    /\ UNCHANGED <<listing, disk, app, list_state, confirmed, alt_screen, frame,
                   stdout, exit_code, lastEvent, before>>

EnableRawModeFails == pc = "enable_raw_mode" /\ Fatal("fatal_startup")

EnterAlternateScreen ==
    /\ pc = "enter_alternate_screen"
    /\ alt_screen' = TRUE
    /\ pc' = "terminal_new"
    /\ UNCHANGED <<listing, disk, app, list_state, confirmed, raw_mode, frame,
                   stdout, exit_code, lastEvent, before>>

EnterAlternateScreenFails == pc = "enter_alternate_screen" /\ Fatal("fatal_startup")

TerminalNew ==
    /\ pc = "terminal_new"
    /\ list_state' = IF app.items # <<>> THEN <<0>> ELSE <<>>
    /\ confirmed' = FALSE
    /\ pc' = "draw"
    /\ UNCHANGED <<listing, disk, app, raw_mode, alt_screen, frame, stdout,
                   exit_code, lastEvent, before>>

TerminalNewFails == pc = "terminal_new" /\ Fatal("fatal_startup")

TerminalDraw ==
    /\ pc = "draw"
    /\ frame' = Draw(app, list_state)
    /\ pc' = "read"
    /\ UNCHANGED <<listing, disk, app, list_state, confirmed, raw_mode, alt_screen,
                   stdout, exit_code, lastEvent, before>>

TerminalDrawFails == pc = "draw" /\ Fatal("fatal_loop")

\* event::read()? and the match on the event
EventRead ==
    /\ pc = "read"
    /\ \E ev \in Events :
          /\ lastEvent' = ev
          /\ before' = app
          /\ IF IsConfirmKey(ev) \/ IsCancelKey(ev)
             THEN /\ confirmed' = IsConfirmKey(ev)
                  /\ pc' = "disable_raw_mode"
                  /\ UNCHANGED <<app, list_state, exit_code>>
             ELSE LET r == OnKey(ev, app, list_state, disk)
                  IN /\ app' = r.app
                     /\ list_state' = r.list_state
                     /\ pc' = IF r.panic THEN "panicked" ELSE "draw"
                     /\ exit_code' = IF r.panic THEN ExitPanic ELSE exit_code
                     /\ UNCHANGED confirmed
    /\ UNCHANGED <<listing, disk, raw_mode, alt_screen, frame, stdout>>

EventReadFails == pc = "read" /\ Fatal("fatal_loop")

DisableRawMode ==
    /\ pc = "disable_raw_mode"
    /\ raw_mode' = FALSE
    /\ pc' = "leave_alternate_screen"
    /\ UNCHANGED <<listing, disk, app, list_state, confirmed, alt_screen, frame,
                   stdout, exit_code, lastEvent, before>>

DisableRawModeFails == pc = "disable_raw_mode" /\ Fatal("fatal_restore")

LeaveAlternateScreen ==
    /\ pc = "leave_alternate_screen"
    /\ alt_screen' = FALSE
    /\ pc' = "print"
    /\ UNCHANGED <<listing, disk, app, list_state, confirmed, raw_mode, frame,
                   stdout, exit_code, lastEvent, before>>

LeaveAlternateScreenFails == pc = "leave_alternate_screen" /\ Fatal("fatal_restore")

\* the lines the confirmed branch prints
Printed(self) ==
    LET sel == selected_paths(self)
    IN [i \in 1..Len(sel) |-> DiffPaths(sel[i], <<CurDir>>)]

\* faulty variant: the selection is printed whether or not it was confirmed
PrintAndExitUnconditional ==
    /\ pc = "print"
    /\ stdout' = Printed(app)
    /\ exit_code' = ExitConfirmed
    /\ pc' = "exited"
    /\ UNCHANGED <<listing, disk, app, list_state, confirmed, raw_mode, alt_screen,
                   frame, lastEvent, before>>

PrintAndExit ==
    /\ pc = "print"
    /\ IF confirmed
       THEN /\ stdout' = Printed(app)
            /\ exit_code' = ExitConfirmed
       ELSE /\ stdout' = stdout
            /\ exit_code' = ExitCancelled
    /\ pc' = "exited"
    /\ UNCHANGED <<listing, disk, app, list_state, confirmed, raw_mode, alt_screen,
                   frame, lastEvent, before>>

Next ==
    \/ ListFiles
    \/ ListFilesFails
    \/ New
    \/ EnableRawMode
    \/ EnableRawModeFails
    \/ EnterAlternateScreen
    \/ EnterAlternateScreenFails
    \/ TerminalNew
    \/ TerminalNewFails
    \/ TerminalDraw
    \/ TerminalDrawFails
    \/ EventRead
    \/ EventReadFails
    \/ DisableRawMode
    \/ DisableRawModeFails
    \/ LeaveAlternateScreen
    \/ LeaveAlternateScreenFails
    \/ PrintAndExit

Spec == Init /\ [][Next]_vars

----------------------------------------------------------------------------
(* Positions of main and the states of the session loop *)

Running == pc \in {"draw", "read"}

Broke == pc \in {"disable_raw_mode", "leave_alternate_screen", "print", "exited",
                 "fatal_restore"}

ConfirmedExit == Broke /\ confirmed

CancelledExit == Broke /\ ~confirmed

Ended == pc \in {"exited", "fatal_startup", "fatal_loop", "fatal_restore", "panicked"}

NonEmpty == app.items # <<>>

Last == Len(app.items) - 1

Selected(items) == { i \in 1..Len(items) : items[i].selected }

----------------------------------------------------------------------------
(* Properties *)

\* C1: while the loop runs, preview_content is the preview derivation of the
\* entry at the current cursor, also after selectOnlyIndex moved the cursor.
C1_PreviewReflectsCursor ==
    Running => app.preview_content = PreviewText(app, disk).text

\* C2: with a non-empty catalog the cursor is always an index in [0, len).
C2_CursorInRange ==
    NonEmpty => app.cursor \in 0..Last

C2_Witness ==
    /\ Len(app.items) = 3
    /\ IsCode(lastEvent, "Up")
    /\ before.cursor = 0
    /\ app.cursor = 2

\* C3: after selectOnlyIndex(n) on a non-empty catalog exactly one entry is
\* selected, it is the entry at min(n, len-1), and the cursor is on it.
C3_SelectOnly ==
    \A c \in Digits :
        (IsShiftChar(lastEvent, c) /\ NonEmpty) =>
            LET n   == IF c = "0" THEN Last ELSE DigitValue(c) - 1
                idx == IF n < Last THEN n ELSE Last
            IN /\ Selected(app.items) = {idx + 1}
               /\ app.cursor = idx

C3_Witness ==
    /\ IsShiftChar(lastEvent, "9")
    /\ Len(app.items) = 2
    /\ Selected(before.items) = {1}
    /\ before.cursor = 0
    /\ Selected(app.items) = {2}
    /\ app.cursor = 1

\* C4: after a confirmed exit the lines printed are the paths of exactly the
\* entries selected when the confirm input was read, once each and in catalog
\* order, and the exit code is 0.
C4_ConfirmedOutput ==
    /\ ConfirmedExit /\ pc # "exited" => stdout = <<>>
    /\ (pc = "exited" /\ confirmed) =>
        LET S == Selected(before.items)
        IN /\ Len(stdout) = Cardinality(S)
           /\ \A i \in S :
                 stdout[Cardinality({ j \in S : j <= i })] = <<before.items[i].name>>
           /\ exit_code = 0

C4_Witness ==
    /\ pc = "exited"
    /\ confirmed
    /\ Len(app.items) = 2
    /\ stdout = << << <<"A">> >>, << <<"b">> >> >>
    /\ exit_code = 0

\* C5: after a cancel input nothing is printed, whatever was selected, and the
\* process ends with a non-zero code: the cancellation code when it exits.
C5_CancelledOutput ==
    CancelledExit =>
        /\ stdout = <<>>
        /\ Ended => exit_code # 0
        /\ pc = "exited" => exit_code = 130

C5_Witness ==
    /\ pc = "exited"
    /\ IsChar(lastEvent, "q")
    /\ Selected(app.items) = {1, 2}
    /\ exit_code = 130
    /\ stdout = <<>>


\* The key table of the external interface: the operation each input stands for.
\* A digit counts only with Shift held and nothing else.
TableAction(ev) ==
    CASE ev.kind # "Key"                                   -> "ignored"
      [] ev.code = "Enter"                                 -> "confirm"
      [] ev.code = "Esc" \/ (ev.code = "Char" /\ ev.ch = "q") -> "cancel"
      [] ev.code = "Up" \/ (ev.code = "Char" /\ ev.ch = "k")  -> "moveUp"
      [] ev.code = "Down" \/ (ev.code = "Char" /\ ev.ch = "j") -> "moveDown"
      [] ev.code = "Char" /\ ev.ch = " "                   -> "toggleCurrent"
      [] ev.code = "Char" /\ ev.ch \in {"a", "A"}          -> "selectAll"
      [] ev.code = "Char" /\ ev.ch = "n"                   -> "selectNone"
      [] ev.code = "Char" /\ ev.ch = "p"                   -> "togglePreview"
      [] ev.code = "Char" /\ ev.ch \in Digits /\ ev.mods = "SHIFT" -> "selectOnlyIndex"
      [] OTHER                                             -> "ignored"

\* The session after the operation the table gives for ev, applied to self.
TableEffect(ev, self) ==
    LET op == TableAction(ev)
    IN CASE op = "moveUp"          -> move_up(self, disk).app
         [] op = "moveDown"        -> move_down(self, disk).app
         [] op = "toggleCurrent"   -> toggle_current(self)
         [] op = "selectAll"       -> select_all(self)
         [] op = "selectNone"      -> select_none(self)
         [] op = "togglePreview"   -> toggle_preview(self)
         [] op = "selectOnlyIndex" ->
               select_only_n(self, IF ev.ch = "0" THEN Len(self.items) - 1
                                   ELSE DigitValue(ev.ch) - 1)
         [] OTHER                  -> self

C6_LoopStates ==
    /\ pc = "draw" /\ lastEvent = NoEvent => ~confirmed /\ app = before
    /\ lastEvent # NoEvent /\ TableAction(lastEvent) \notin {"confirm", "cancel"} =>
          pc \in {"draw", "read", "fatal_loop"}
    /\ Running /\ lastEvent # NoEvent =>
          /\ TableAction(lastEvent) \notin {"confirm", "cancel"}
          /\ app = TableEffect(lastEvent, before)
          /\ TableAction(lastEvent) = "ignored" => app = before
    /\ Broke =>
          /\ TableAction(lastEvent) \in {"confirm", "cancel"}
          /\ confirmed <=> TableAction(lastEvent) = "confirm"
          /\ app = before

C6_LoopSteps ==
    /\ Broke => Broke' /\ app' = app /\ confirmed' = confirmed /\ lastEvent' = lastEvent
    /\ ~Broke /\ Broke' => pc = "read"
    /\ pc = "terminal_new" /\ pc' # "fatal_startup" => pc' = "draw"

\* C6: the loop starts in Running; a confirm input takes it to ConfirmedExit and
\* a cancel input to CancelledExit, both terminal with no session operation
\* applied afterwards; any other input of the key table keeps it Running and
\* applies its operation; any input outside the table keeps it Running and
\* leaves the session as it was.
C6_LoopStateMachine == []C6_LoopStates /\ [][C6_LoopSteps]_vars

\* C7: at every render of a non-empty catalog the highlight index handed to the
\* renderer is the session's cursor.
C7_HighlightIsCursor ==
    (pc = "read" /\ NonEmpty) => frame.highlight = <<app.cursor>>

\* C8: raw mode and the alternate screen are released on every way out of the
\* loop: confirm, cancel, and a fatal error while rendering or reading an event.
C8_TerminalReleased ==
    pc \in {"exited", "fatal_loop"} => ~raw_mode /\ ~alt_screen

\* C9: a moveUp undoes the moveDown before it and a moveDown undoes the moveUp
\* before it: the cursor is back at its original index.
C9_MovesInverse ==
    NonEmpty =>
        /\ TableAction(lastEvent) = "moveUp" =>
              move_down(app, disk).app.cursor = before.cursor
        /\ TableAction(lastEvent) = "moveDown" =>
              move_up(app, disk).app.cursor = before.cursor

C9_Witness ==
    /\ Len(app.items) = 3
    /\ IsCode(lastEvent, "Down")
    /\ before.cursor = 2
    /\ app.cursor = 0
    /\ move_up(app, disk).app.cursor = 2

\* C10: a second toggleCurrent at the same cursor restores the entry's selected
\* value, leaves every other entry's flag alone and leaves the cursor alone.
C10_ToggleTwice ==
    (NonEmpty /\ TableAction(lastEvent) = "toggleCurrent") =>
        /\ toggle_current(app).items = before.items
        /\ toggle_current(app).cursor = before.cursor
        /\ app.cursor = before.cursor

C10_Witness ==
    /\ IsChar(lastEvent, " ")
    /\ Len(app.items) = 3
    /\ app.cursor = 1
    /\ Selected(before.items) = {1, 2}
    /\ Selected(app.items) = {1}
    /\ Selected(toggle_current(app).items) = {1, 2}

\* main is past App::new and the App exists
Constructed ==
    Running \/ Broke
      \/ pc \in {"enable_raw_mode", "enter_alternate_screen", "terminal_new", "fatal_loop"}

\* C11: after selectAll the selected count is the catalog length, and after
\* selectNone it is 0.
C11_SelectAllNone ==
    /\ TableAction(lastEvent) = "selectAll" => selected_count(app) = Len(app.items)
    /\ TableAction(lastEvent) = "selectNone" => selected_count(app) = 0

C11_Witness ==
    /\ IsChar(lastEvent, "a")
    /\ Len(app.items) = 3
    /\ Selected(before.items) = {2}
    /\ selected_count(app) = 3

EmptyCatalogNoOps ==
    (app.items = <<>>
       /\ TableAction(lastEvent) \in {"moveUp", "moveDown", "toggleCurrent", "selectOnlyIndex"})
      => app = before /\ pc # "panicked"

\* C12 as stated: with an empty catalog moveUp, moveDown, toggleCurrent and
\* selectOnlyIndex(n) leave the session unchanged and the preview text is
\* exactly "no files available" from construction onward.
C12_EmptyCatalogAsStated ==
    /\ EmptyCatalogNoOps
    /\ (Constructed /\ app.items = <<>>) =>
          app.preview_content = Lit("no files available")

\* C12 (amended): as above, the preview text being exactly "No files available".
C12_EmptyCatalog ==
    /\ EmptyCatalogNoOps
    /\ (Constructed /\ app.items = <<>>) =>
          app.preview_content = Lit("No files available")

C12_Witness ==
    /\ pc = "draw"
    /\ app.items = <<>>
    /\ IsShiftChar(lastEvent, "3")
    /\ app = before
    /\ app.preview_content = Lit("No files available")

NamesOf(items) == [i \in 1..Len(items) |-> items[i].name]

\* out is a permutation of in with the non-hidden entries first and each group
\* in ascending case-insensitive order of name
SortedPermutation(in, out) ==
    /\ Len(out) = Len(in)
    /\ { out[i] : i \in 1..Len(out) } = { in[i] : i \in 1..Len(in) }
    /\ \A i, j \in 1..Len(out) :
          i < j =>
             /\ out[i].hidden => out[j].hidden
             /\ out[i].hidden = out[j].hidden =>
                   CmpLower(out[i].name, out[j].name) <= 0

C13_NewSorts ==
    pc = "new" /\ pc' # "new" => SortedPermutation(listing, app'.items)

\* C13: the catalog built at construction is a permutation of the listing in
\* which every non-hidden entry precedes every hidden one and each group is in
\* ascending case-insensitive order of name.
C13_CatalogSorted == [][C13_NewSorts]_vars

C13_Witness ==
    /\ pc = "new"
    /\ NamesOf(listing) = << <<".", "b">>, <<"A">>, <<"b">>, <<".", "a">> >>
    /\ NamesOf(NewApp(listing).items) = << <<"A">>, <<"b">>, <<".", "a">>, <<".", "b">> >>

\* the ordinal the key table gives each Shift+digit, 0 standing for the last index
ShiftOrdinal(c, len) ==
    CASE c = "1" -> 0 [] c = "2" -> 1 [] c = "3" -> 2 [] c = "4" -> 3
      [] c = "5" -> 4 [] c = "6" -> 5 [] c = "7" -> 6 [] c = "8" -> 7
      [] c = "9" -> 8 [] c = "0" -> len - 1

\* C14: Shift+1..Shift+9 act as selectOnlyIndex(0..8) and Shift+0 as
\* selectOnlyIndex(len-1): after Shift+0 on a non-empty catalog exactly the last
\* entry is selected with the cursor on it, and after Shift+k exactly the entry
\* at min(k-1, len-1) is selected.
C14_ShiftDigits ==
    \A c \in Digits :
        IsShiftChar(lastEvent, c) =>
            /\ app = select_only_n(before, ShiftOrdinal(c, Len(before.items)))
            /\ pc # "panicked"
            /\ NonEmpty /\ c = "0" =>
                  Selected(app.items) = {Len(app.items)} /\ app.cursor = Last
            /\ NonEmpty /\ c # "0" =>
                  \E idx \in 0..Last :
                     /\ idx = ShiftOrdinal(c, Len(app.items)) \/ idx = Last
                     /\ idx <= ShiftOrdinal(c, Len(app.items))
                     /\ Selected(app.items) = {idx + 1}

C14_Witness ==
    /\ IsShiftChar(lastEvent, "0")
    /\ Len(app.items) = 3
    /\ before.cursor = 0
    /\ Selected(before.items) = {1, 2}
    /\ Selected(app.items) = {3}
    /\ app.cursor = 2

\* C15: on a non-empty catalog toggleCurrent changes the selected count by
\* exactly one, flips only the entry at the cursor and leaves cursor,
\* preview_content and show_preview as they were.
C15_ToggleFrame ==
    (NonEmpty /\ TableAction(lastEvent) = "toggleCurrent") =>
        /\ selected_count(app) - selected_count(before) \in {1, -1}
        /\ \A i \in 1..Len(app.items) :
              (app.items[i].selected # before.items[i].selected) <=> (i = before.cursor + 1)
        /\ app.cursor = before.cursor
        /\ app.preview_content = before.preview_content
        /\ app.show_preview = before.show_preview

C15_Witness ==
    /\ IsChar(lastEvent, " ")
    /\ Len(app.items) = 3
    /\ before.cursor = 2
    /\ Selected(before.items) = {1, 3}
    /\ Selected(app.items) = {1}
    /\ ~app.show_preview

\* an entry without its selected flag
Fixed(items) ==
    [i \in 1..Len(items) |->
        [name |-> items[i].name, path |-> items[i].path,
         hidden |-> items[i].hidden, ignored |-> items[i].ignored]]

C16_CatalogStep == Constructed => Fixed(app'.items) = Fixed(app.items)

\* C16: after construction no step changes the catalog's length, the order of
\* its entries or any entry's name, path, hidden or ignored value; only
\* selected changes.
C16_CatalogFixed == [][C16_CatalogStep]_vars

C16_Witness ==
    /\ pc = "draw"
    /\ IsChar(lastEvent, "n")
    /\ Len(app.items) = 3
    /\ Fixed(app.items) = Fixed(before.items)
    /\ Selected(before.items) = {1, 2, 3}
    /\ Selected(app.items) = {}

\* main has entered the loop
LoopEntered ==
    Running \/ Broke \/ pc = "fatal_loop" \/ (pc = "panicked" /\ lastEvent # NoEvent)

\* C17: the loop stops only on a confirm or cancel input: once entered it is
\* Running until such an input is read, whatever other inputs it reads (a
\* failing render or event read apart).
C17_StopsOnlyOnExitKeys ==
    LoopEntered =>
        \/ Running
        \/ pc = "fatal_loop"
        \/ Broke /\ TableAction(lastEvent) \in {"confirm", "cancel"}

\* the entry the cursor is on cannot be read
ReadFails == NonEmpty /\ ~disk[AtCursor(app).name].ok

\* C18: when reading the file at the cursor fails, the preview is a placeholder
\* embedding the error description, cursor and selection are what the move
\* gives on any file, and the loop stays Running.
C18_ReadFailureDisplayed ==
    /\ (Constructed /\ lastEvent = NoEvent /\ ReadFails) =>
          app.preview_content =
             Lit("Error reading file: ") \o Lit(disk[AtCursor(app).name].err)
    /\ (TableAction(lastEvent) \in {"moveUp", "moveDown"} /\ ReadFails) =>
          /\ pc \in {"draw", "read", "fatal_loop"}
          /\ app.preview_content =
                Lit("Error reading file: ") \o Lit(disk[AtCursor(app).name].err)
          /\ app.cursor = IF TableAction(lastEvent) = "moveDown"
                          THEN (before.cursor + 1) % Len(app.items)
                          ELSE (before.cursor + Len(app.items) - 1) % Len(app.items)
          /\ Selected(app.items) = Selected(before.items)

C18_Witness ==
    /\ pc = "draw"
    /\ IsCode(lastEvent, "Down")
    /\ NamesOf(app.items) = << <<"A">>, <<".", "a">> >>
    /\ app.cursor = 1
    /\ Selected(app.items) = {1}
    /\ app.preview_content =
          Lit("Error reading file: ") \o Lit("Permission denied (os error 13)")

\* the first k characters of str
RECURSIVE TakeChars(_, _)
TakeChars(str, k) ==
    IF k = 0 \/ str = <<>> THEN <<>>
    ELSE IF Head(str).n <= k
         THEN <<Head(str)>> \o TakeChars(Tail(str), k - Head(str).n)
         ELSE <<[s |-> Head(str).s, n |-> k]>>

\* the preview of a readable content, cut and threshold counted in characters
PreviewByChars(content) ==
    IF content = <<>> THEN Lit("<empty file>")
    ELSE IF CharLen(content) <= 10000 THEN content
    ELSE TakeChars(content, 10000)
           \o Lit("\n\n... (truncated, file is ")
           \o Lit(ToString(ByteLen(content)))
           \o Lit(" bytes)")

\* the preview was derived by the last step for the entry at the cursor
PreviewJustDerived ==
    \/ pc = "panicked"
    \/ Constructed /\ lastEvent = NoEvent
    \/ TableAction(lastEvent) \in {"moveUp", "moveDown"}

\* C19: for a readable file the preview is "<empty file>" for empty content, the
\* content itself up to 10,000 characters, and otherwise its first 10,000
\* characters and a notice giving the byte length; the derivation never aborts.
C19_PreviewByCharacters ==
    (PreviewJustDerived /\ NonEmpty /\ disk[AtCursor(app).name].ok) =>
        /\ pc # "panicked"
        /\ app.preview_content = PreviewByChars(disk[AtCursor(app).name].text)

\* C20: selectAll, selectNone and togglePreview leave cursor and
\* preview_content alone; selectAll and selectNone leave show_preview alone and
\* togglePreview leaves every selected flag alone.
C20_SelectionFrame ==
    /\ TableAction(lastEvent) \in {"selectAll", "selectNone", "togglePreview"} =>
          /\ app.cursor = before.cursor
          /\ app.preview_content = before.preview_content
    /\ TableAction(lastEvent) \in {"selectAll", "selectNone"} =>
          app.show_preview = before.show_preview
    /\ TableAction(lastEvent) = "togglePreview" =>
          /\ Selected(app.items) = Selected(before.items)
          /\ app.show_preview # before.show_preview

C20_Witness ==
    /\ IsChar(lastEvent, "p")
    /\ Len(app.items) = 3
    /\ app.cursor = 1
    /\ Selected(app.items) = {1, 3}
    /\ before.show_preview
    /\ ~app.show_preview

====
